---- MODULE Spec2Model ----
(***************************************************************************)
(* The window / framebuffer presentation layer of cpp_rasterizer:          *)
(* Rasterizer::Windows::Window (platform_windows.cpp), its window          *)
(* procedure, the factory IWindow::Create and the calls a client makes on  *)
(* the surface.  The Win32 calls the code makes (RegisterClass,            *)
(* CreateWindowEx, PeekMessage, DispatchMessage, DefWindowProc,            *)
(* DestroyWindow, PostQuitMessage, GetDC, StretchDIBits, ReleaseDC) are    *)
(* modelled by their documented effect on the thread's message queue and   *)
(* on the native windows.                                                  *)
(***************************************************************************)
EXTENDS Integers, Sequences, FiniteSets, TLC

\* ------------------------------------------------------------------ bounds

\* Largest width / height a caller passes to Create.
MaxDim == 2

\* Largest number of posted messages waiting in the thread's queue.
MaxQueue == 2

\* Number of messages the environment posts in a run with a finite supply.
MaxPosts == 3

\* The clock of the message-loop program: ticks in a second, last tick, and the
\* largest number of loop iterations followed.
TicksPerSecond == 2
MaxClock == 5
MaxFrames == 3

\* ------------------------------------------------------- program constants

\* nullptr, the value of WindowHandle::handle before / without a window.
NULL == 0

\* A u32 pixel is written as its four bytes, most significant first.
\* The fill value of the framebuffer, 0xFF0000FF.
SentinelColor == <<255, 0, 0, 255>>

\* The u32 value 0.
ZeroColor == <<0, 0, 0, 0>>

\* sizeof(BITMAPINFOHEADER)
SizeofBitmapInfoHeader == 40

\* BI_RGB
BI_RGB == 0

\* The surfaces a client may hold; surface s gets native handle s.
Surface == {1, 2}

\* The surfaces of the single-surface program (main creates one window).
MainSurfaces == {1}

\* Values a caller passes for width and height (int, not validated).
Dim == (-1) .. MaxDim

\* Titles a caller passes.
Titles == {"Rasterizer", "Test"}

\* What a read through a dangling std::string reference may produce.
Indeterminate == "<indeterminate>"

\* Client sizes the user may drag the (resizable, WS_OVERLAPPEDWINDOW) native
\* window to: one that differs from every creation size.
NativeSizes == {<<MaxDim + 1, MaxDim + 1>>}

\* Messages the environment posts to a native window.
PostedKinds == {"WM_CLOSE", "WM_SIZE", "WM_KEYDOWN"}

VARIABLES
    window,          \* window[s]: the Window object of surface s (its members)
    arg,             \* arg[s]: the caller's arguments of Create for surface s
    ptr,             \* ptr[s]: the WindowPtr Create returned ("unset", "null", "object")
    nativeWin,       \* nativeWin[h]: the native window of handle h
    classRegistered, \* the window class "Window Class" is registered in the process
    queue,           \* the thread's posted-message queue
    quitPosted,      \* PostQuitMessage was called and WM_QUIT not yet retrieved
    pc,              \* "idle", or "poll" while PollEvents is in its loop
    cur,             \* the surface whose PollEvents is running (0 when idle)
    closeAtEntry,    \* at entry of the running PollEvents: surface open and a close pending
    ret,             \* what the last accessor returned / the last Draw requested
    dcOut,           \* drawing contexts acquired (GetDC) and not released
    registerLog,     \* the results of the RegisterClass calls so far (0: failed)
    main,            \* where main() stands, and its calls in the running iteration
    budget,          \* the messages the environment may still post
    legacy,          \* the first program of main.cpp: its globals and main's locals
    calc             \* the last element count computed for resize, with its operands

vars == <<window, arg, ptr, nativeWin, classRegistered, queue, quitPosted,
          pc, cur, closeAtEntry, ret, dcOut, registerLog, main, budget,
          legacy, calc>>

\* ------------------------------------------------------------- data

\* The members of a Window before the constructor ran (the default member
\* initialisers of platform_windows.hpp).
NoWindow ==
    [life          |-> "none",
     m_title       |-> 0,
     m_width       |-> 0,
     m_height      |-> 0,
     m_is_open     |-> FALSE,
     handle        |-> NULL,
     m_framebuffer |-> <<>>,
     m_bmi         |-> [biSize |-> 0, biWidth |-> 0, biHeight |-> 0, biPlanes |-> 0,
                        biBitCount |-> 0, biCompression |-> 0]]

NoArg == [title |-> "", width |-> 0, height |-> 0, alive |-> FALSE, created |-> FALSE]

NoNative == [exists |-> FALSE, visible |-> FALSE, size |-> <<0, 0>>]

\* A StretchDIBits request: where it draws, the two regions, the pixels and
\* descriptor height it reads, and whether pixels were copied.
NoBlit == [target |-> "none", dst |-> <<0, 0, 0, 0>>, src |-> <<0, 0, 0, 0>>,
           pixels |-> <<>>, biHeight |-> 0, copied |-> FALSE]

NoRet == [op |-> "none", s |-> 0, b |-> FALSE, n |-> 0, str |-> "", blit |-> NoBlit]

Msg(h, m, l) == [hwnd |-> h, message |-> m, lParam |-> l]

\* The posted messages of q that are not for window h.
RECURSIVE WithoutWindow(_, _)
WithoutWindow(q, h) ==
    IF q = <<>> THEN <<>>
    ELSE IF Head(q).hwnd = h THEN WithoutWindow(Tail(q), h)
         ELSE <<Head(q)>> \o WithoutWindow(Tail(q), h)

\* The surface is driven by some client, in any order of calls.
ClientMain == [pc |-> "client", polls |-> 0, draws |-> 0]

\* The surface is driven by main(), which is about to call IWindow::Create.
ProgramMain == [pc |-> "create", polls |-> 0, draws |-> 0]

\* The environment posts as often as it likes / at most n more times.
NoBudget == [limited |-> FALSE, left |-> 0]
Budget(n) == [limited |-> TRUE, left |-> n]

\* ------------------------------------------------------------------ main()

\* The position of main() at which it makes call op.  PollMessage and
\* PollReturn are the inside of its PollEvents call; main calls no accessor
\* but IsOpen.
MainPcEnabled(op) ==
    CASE op = "Create"      -> main.pc = "create"
      [] op = "IsOpen"      -> main.pc = "test"
      [] op = "PollBegin"   -> main.pc = "poll"
      [] op = "PollMessage" -> main.pc = "polling"
      [] op = "PollReturn"  -> main.pc = "polling"
      [] op = "Draw"        -> main.pc = "draw"
      [] op = "Destructor"  -> main.pc = "exit"
      [] OTHER              -> FALSE

\* main() with the two calls of the loop body in the other order.
MainPcAfter_DrawFirst(op, flag) ==
    CASE op = "Create"      -> IF flag THEN "terminated" ELSE "test"
      [] op = "IsOpen"      -> IF flag THEN "draw" ELSE "exit"
      [] op = "Draw"        -> "poll"
      [] op = "PollBegin"   -> "polling"
      [] op = "PollMessage" -> "polling"
      [] op = "PollReturn"  -> "test"
      [] op = "Destructor"  -> "done"
      [] OTHER              -> main.pc

\* The position of main() after call op.  flag: for Create, the constructor
\* threw (nothing catches it); for IsOpen, the value returned, which the while
\* tests.  After the loop, return 0 releases the WindowPtr (the destructor).
MainPcAfter(op, flag) ==
    CASE op = "Create"      -> IF flag THEN "terminated" ELSE "test"
      [] op = "IsOpen"      -> IF flag THEN "poll" ELSE "exit"
      [] op = "PollBegin"   -> "polling"
      [] op = "PollMessage" -> "polling"
      [] op = "PollReturn"  -> "draw"
      [] op = "Draw"        -> "test"
      [] op = "Destructor"  -> "done"
      [] OTHER              -> main.pc

\* The PollEvents / Draw calls made in the running iteration of the loop: an
\* iteration starts when the while test finds IsOpen() true.
CallsAfter(n, op, flag, counted) ==
    IF op = "IsOpen" /\ flag THEN 0
    ELSE IF op = counted THEN n + 1
    ELSE n

\* Call op is made by whoever drives the surface: a client may make it at any
\* time, main() only where its code makes it.
Sched(op, flag) ==
    IF main.pc = "client"
    THEN main' = main
    ELSE /\ MainPcEnabled(op)
         /\ main' = [pc    |-> MainPcAfter(op, flag),
                     polls |-> CallsAfter(main.polls, op, flag, "PollBegin"),
                     draws |-> CallsAfter(main.draws, op, flag, "Draw")]

\* The environment uses up one of the messages it may post.
Spend ==
    IF budget.limited
    THEN budget.left > 0 /\ budget' = [budget EXCEPT !.left = @ - 1]
    ELSE budget' = budget

\* --------------------------------------------- the Win32 thread environment

\* The part of the state the Win32 calls act on.
Env == [nativeWin |-> nativeWin, queue |-> queue, quitPosted |-> quitPosted]

RECURSIVE WindowProc(_, _, _), DefWindowProc(_, _, _), DestroyWindow(_, _)

\* PostQuitMessage(0): raises the thread's quit flag; WM_QUIT is handed out by a
\* later PeekMessage, once no posted message is left.
PostQuitMessage(E) == [E EXCEPT !.quitPosted = TRUE]

\* WindowProc with the WM_DESTROY case missing.
WindowProc_NoQuit(E, hwnd, uMsg) == DefWindowProc(E, hwnd, uMsg)

\* WindowProc: WM_DESTROY posts the quit notification and returns 0; every other
\* message goes to DefWindowProc.
WindowProc(E, hwnd, uMsg) ==
    IF uMsg = "WM_DESTROY"
    THEN PostQuitMessage(E)
    ELSE DefWindowProc(E, hwnd, uMsg)

\* DefWindowProc: the default handling of WM_CLOSE destroys the window; the
\* other messages of the model have no default effect on the modelled state.
DefWindowProc(E, hwnd, uMsg) ==
    IF uMsg = "WM_CLOSE" THEN DestroyWindow(E, hwnd) ELSE E

\* DestroyWindow(hwnd): fails (no effect) for a null or already destroyed
\* handle; otherwise sends WM_DESTROY to the window procedure, destroys the
\* window and flushes the messages posted to it.
DestroyWindow(E, hwnd) ==
    IF hwnd = NULL \/ ~E.nativeWin[hwnd].exists
    THEN E
    ELSE LET E1 == WindowProc(E, hwnd, "WM_DESTROY")
         IN  [E1 EXCEPT !.nativeWin[hwnd] = [@ EXCEPT !.exists = FALSE, !.visible = FALSE],
                        !.queue = WithoutWindow(E1.queue, hwnd)]

\* RegisterClass(&wc): registers the class "Window Class" and returns its atom
\* (non-zero); for a class that is already registered it fails and returns 0,
\* and the class stays registered.
RegisterClass(registered) == IF registered THEN 0 ELSE 1

\* CreateWindowEx: on success a native window of the requested size with handle
\* h exists (WM_CREATE went through the window procedure); on failure NULL.
CreateWindowEx(E, h, width, height, nativeOk) ==
    IF nativeOk
    THEN WindowProc([E EXCEPT !.nativeWin[h] =
                        [exists |-> TRUE, visible |-> FALSE, size |-> <<width, height>>]],
                    h, "WM_CREATE")
    ELSE E

\* ShowWindow(hwnd, SW_SHOW): no effect for a null handle.
ShowWindow(E, hwnd) ==
    IF hwnd = NULL \/ ~E.nativeWin[hwnd].exists
    THEN E
    ELSE [E EXCEPT !.nativeWin[hwnd].visible = TRUE]

\* TranslateMessage: a key-down message posts the character message it
\* translates to; other messages are left alone.
TranslateMessage(E, msg) ==
    IF msg.message = "WM_KEYDOWN"
    THEN [E EXCEPT !.queue = Append(@, Msg(msg.hwnd, "WM_CHAR", <<0, 0>>))]
    ELSE E

\* DispatchMessage: calls the window procedure of the message's window; a
\* thread message (hwnd NULL, such as WM_QUIT) or a message of a destroyed
\* window is dropped.
DispatchMessage(E, msg) ==
    IF msg.hwnd = NULL \/ ~E.nativeWin[msg.hwnd].exists
    THEN E
    ELSE WindowProc(E, msg.hwnd, msg.message)

\* PeekMessage(&msg, nullptr, 0, 0, PM_REMOVE) has a message to hand out.
PeekHasMessage == queue # <<>> \/ quitPosted

\* The message PeekMessage hands out: the oldest posted message of the thread
\* (of any window), or WM_QUIT when none is left and the quit flag is up.
PeekMsg == IF queue # <<>> THEN Head(queue) ELSE Msg(NULL, "WM_QUIT", <<0, 0>>)

\* PeekMessage with PM_NOREMOVE: the message stays where it is.
PeekRemove_NoRemove(E) == E

\* The environment after PeekMessage removed that message.
PeekRemove(E) ==
    IF E.queue # <<>>
    THEN [E EXCEPT !.queue = Tail(@)]
    ELSE [E EXCEPT !.quitPosted = FALSE]

SetEnv(E) ==
    /\ nativeWin' = E.nativeWin
    /\ queue' = E.queue
    /\ quitPosted' = E.quitPosted


\* ------------------------------------------------ Window::Window, the factory

\* m_width * m_height as the constructor computes it (int; the creation sizes of
\* this model stay far inside the int range).
FramebufferSize(width, height) == width * height

\* std::vector<u32>::resize(n, value) on the empty vector: n copies of value.
Resize(n, value) == [i \in 1 .. n |-> value]

\* m_is_open set without looking at the handle.
CtorIsOpen_Always(hwnd) == TRUE

\* m_is_open = (m_window_handle.handle != nullptr)
CtorIsOpen(hwnd) == hwnd # NULL

\* The framebuffer zero-filled (what the comment on the line says).
CtorFramebuffer_Zeros(width, height) ==
    Resize(FramebufferSize(width, height), ZeroColor)

\* m_framebuffer.resize(m_width * m_height, 0xFF0000FF)
CtorFramebuffer(width, height) ==
    Resize(FramebufferSize(width, height), SentinelColor)

\* The descriptor of a 24-bit bitmap.
CtorBmi_Depth24(width, height) ==
    [biSize        |-> SizeofBitmapInfoHeader,
     biWidth       |-> width,
     biHeight      |-> -height,
     biPlanes      |-> 1,
     biBitCount    |-> 24,
     biCompression |-> BI_RGB]

\* The descriptor with the height stored as given (bottom-up).
CtorBmi_BottomUp(width, height) ==
    [biSize        |-> SizeofBitmapInfoHeader,
     biWidth       |-> width,
     biHeight      |-> height,
     biPlanes      |-> 1,
     biBitCount    |-> 32,
     biCompression |-> BI_RGB]

\* m_bmi.bmiHeader as the constructor fills it.
CtorBmi(width, height) ==
    [biSize        |-> SizeofBitmapInfoHeader,
     biWidth       |-> width,
     biHeight      |-> -height,
     biPlanes      |-> 1,
     biBitCount    |-> 32,
     biCompression |-> BI_RGB]

\* The resize argument converts to size_t: a negative product is a huge count
\* and resize throws std::length_error out of the constructor.
CtorThrows(width, height) == FramebufferSize(width, height) < 0

\* The constructor with width and height stored swapped.
CtorMembers_Swapped(s, width, height, hwnd) ==
    [life          |-> IF CtorThrows(width, height) THEN "threw" ELSE "alive",
     m_title       |-> s,
     m_width       |-> height,
     m_height      |-> width,
     m_is_open     |-> CtorIsOpen(hwnd),
     handle        |-> hwnd,
     m_framebuffer |-> IF CtorThrows(width, height) THEN <<>>
                       ELSE CtorFramebuffer(width, height),
     m_bmi         |-> CtorBmi(height, width)]

\* The members after Window::Window(title, width, height), given the handle
\* CreateWindowEx returned.  m_title is a reference member: it holds no string
\* but is bound to the caller's argument (slot s of arg).
CtorMembers(s, width, height, hwnd) ==
    [life          |-> IF CtorThrows(width, height) THEN "threw" ELSE "alive",
     m_title       |-> s,
     m_width       |-> width,
     m_height      |-> height,
     m_is_open     |-> CtorIsOpen(hwnd),
     handle        |-> hwnd,
     m_framebuffer |-> IF CtorThrows(width, height) THEN <<>>
                       ELSE CtorFramebuffer(width, height),
     m_bmi         |-> CtorBmi(width, height)]

\* The constructor giving up when RegisterClass fails.
CtorGoesOn_ChecksAtom(atom) == atom # 0

\* The constructor goes on to CreateWindowEx whatever RegisterClass returned:
\* the result of the call is not looked at.
CtorGoesOn(atom) == TRUE

\* What IWindow::Create hands back: MakeShared never yields nullptr; an
\* exception of the constructor passes through.
CreateResult(win) == IF win.life = "threw" THEN "exception" ELSE "object"

\* IWindow::Create(title, width, height) for surface s.  nativeOk: CreateWindowEx
\* succeeds.  temporary: the title argument is a temporary std::string (as in
\* main, built from a string literal), destroyed when the statement ends.
Create(s, title, width, height, nativeOk, temporary) ==
    /\ pc = "idle"
    /\ window[s].life = "none"
    /\ LET atom == RegisterClass(classRegistered)
           made == nativeOk /\ CtorGoesOn(atom)
           hwnd == IF made THEN s ELSE NULL
           E1   == CreateWindowEx(Env, s, width, height, made)
           E2   == ShowWindow(E1, hwnd)
           win  == CtorMembers(s, width, height, hwnd)
       IN  /\ classRegistered' = TRUE
           /\ registerLog' = Append(registerLog, atom)
           /\ Sched("Create", CtorThrows(width, height))
           /\ SetEnv(E2)
           /\ window' = [window EXCEPT ![s] = win]
           /\ ptr' = [ptr EXCEPT ![s] = CreateResult(win)]
           /\ arg' = [arg EXCEPT ![s] =
                        [title |-> title, width |-> width, height |-> height,
                         alive |-> ~temporary, created |-> nativeOk]]
    /\ UNCHANGED <<pc, cur, closeAtEntry, ret, dcOut, budget, legacy, calc>>

\* IWindow::Create in a build without WIN32: no Window is constructed, the
\* factory returns nullptr.
CreateElse(s, title, width, height, temporary) ==
    /\ pc = "idle"
    /\ window[s].life = "none"
    /\ ptr[s] = "unset"
    /\ ptr' = [ptr EXCEPT ![s] = "null"]
    /\ arg' = [arg EXCEPT ![s] =
                 [title |-> title, width |-> width, height |-> height,
                  alive |-> ~temporary, created |-> FALSE]]
    /\ Sched("Create", FALSE)
    /\ UNCHANGED <<window, nativeWin, classRegistered, registerLog, queue, quitPosted,
                   pc, cur, closeAtEntry, ret, dcOut, budget, legacy, calc>>

\* main's while test on a null WindowPtr: window->IsOpen() is a virtual call
\* through nullptr, which reads the object's table pointer at address 0; the
\* process ends with an access violation.
NullCall ==
    /\ main.pc = "test"
    /\ ptr[1] = "null"
    /\ main' = [main EXCEPT !.pc = "terminated"]
    /\ ret' = [NoRet EXCEPT !.op = "IsOpen", !.s = NULL]
    /\ UNCHANGED <<window, arg, ptr, nativeWin, classRegistered, registerLog, queue,
                   quitPosted, pc, cur, closeAtEntry, dcOut, budget, legacy, calc>>

\* The destructor leaving the native window to the system.
DtorRequests_Never(handle) == FALSE

\* if (m_window_handle.handle): the destructor calls DestroyWindow for every
\* non-null stored handle.
DtorRequests(handle) == handle # NULL

\* Window::~Window, run when the last WindowPtr is released.  ret notes
\* whether DestroyWindow was called.
Destructor(s) ==
    /\ pc = "idle"
    /\ window[s].life = "alive"
    /\ SetEnv(IF DtorRequests(window[s].handle)
              THEN DestroyWindow(Env, window[s].handle)
              ELSE Env)
    /\ ret' = [NoRet EXCEPT !.op = "~Window", !.s = s,
                            !.b = DtorRequests(window[s].handle)]
    /\ window' = [window EXCEPT ![s].life = "destroyed"]
    /\ ptr' = [ptr EXCEPT ![s] = "released"]
    /\ Sched("Destructor", FALSE)
    /\ UNCHANGED <<arg, classRegistered, pc, cur, closeAtEntry, dcOut,
                   registerLog, budget, legacy, calc>>

\* ------------------------------------------------------- Window::PollEvents

\* The loop body treating every message other than WM_QUIT as "still open".
PollMembers_Reopen(win, msg) ==
    [win EXCEPT !.m_is_open = (msg.message # "WM_QUIT")]

\* The loop body following the native window's size on WM_SIZE.
PollMembers_Resize(win, msg) ==
    IF msg.message = "WM_QUIT"
    THEN [win EXCEPT !.m_is_open = FALSE]
    ELSE IF msg.message = "WM_SIZE"
         THEN [win EXCEPT !.m_width = msg.lParam[1], !.m_height = msg.lParam[2]]
         ELSE win

\* The loop body closing the surface on the close message as well.
PollMembers_OnClose(win, msg) ==
    IF msg.message \in {"WM_QUIT", "WM_CLOSE"}
    THEN [win EXCEPT !.m_is_open = FALSE]
    ELSE win

\* The members after the loop body's own assignment for message msg.
PollMembers(win, msg) ==
    IF msg.message = "WM_QUIT"
    THEN [win EXCEPT !.m_is_open = FALSE]
    ELSE win

\* A close message for the surface's own native window is waiting.
ClosePending(s) ==
    /\ window[s].handle # NULL
    /\ \E i \in 1 .. Len(queue) :
          queue[i].message = "WM_CLOSE" /\ queue[i].hwnd = window[s].handle

\* PollEvents is called.
PollBegin(s) ==
    /\ pc = "idle"
    /\ window[s].life = "alive"
    /\ pc' = "poll"
    /\ cur' = s
    /\ closeAtEntry' = (window[s].m_is_open /\ ClosePending(s))
    /\ Sched("PollBegin", FALSE)
    /\ UNCHANGED <<window, arg, ptr, nativeWin, classRegistered, queue, quitPosted,
                   ret, dcOut, registerLog, budget, legacy, calc>>

\* One turn of the while loop: PeekMessage hands out a message, the body runs.
PollMessage ==
    /\ pc = "poll"
    /\ PeekHasMessage
    /\ LET msg == PeekMsg
           E1  == PeekRemove(Env)
           E2  == TranslateMessage(E1, msg)
           E3  == DispatchMessage(E2, msg)
       IN  /\ window' = [window EXCEPT ![cur] = PollMembers(@, msg)]
           /\ SetEnv(E3)
    /\ Sched("PollMessage", FALSE)
    /\ UNCHANGED <<arg, ptr, classRegistered, pc, cur, closeAtEntry, ret, dcOut,
                   registerLog, budget, legacy, calc>>

\* PeekMessage returns FALSE: the loop ends and PollEvents returns.
PollReturn ==
    /\ pc = "poll"
    /\ ~PeekHasMessage
    /\ pc' = "idle"
    /\ cur' = 0
    /\ closeAtEntry' = FALSE
    /\ Sched("PollReturn", FALSE)
    /\ UNCHANGED <<window, arg, ptr, nativeWin, classRegistered, queue, quitPosted,
                   ret, dcOut, registerLog, budget, legacy, calc>>

\* ------------------------------------------------------------- accessors

\* What reading the std::string m_title refers to gives: the caller's string
\* while it lives; after its destruction the reference dangles and the read is
\* undefined behaviour (any content).
TitleRead(s) ==
    IF arg[window[s].m_title].alive
    THEN {arg[window[s].m_title].title}
    ELSE Titles \cup {Indeterminate}

Callable(s) == pc = "idle" /\ window[s].life = "alive"

Returns(r) ==
    /\ ret' = r
    /\ Sched(r.op, r.b)
    /\ UNCHANGED <<window, arg, ptr, nativeWin, classRegistered, queue, quitPosted,
                   pc, cur, closeAtEntry, dcOut, registerLog, budget, legacy, calc>>

IsOpen(s) ==
    /\ Callable(s)
    /\ Returns([NoRet EXCEPT !.op = "IsOpen", !.s = s, !.b = window[s].m_is_open])

GetTitle(s) ==
    /\ Callable(s)
    /\ \E t \in TitleRead(s) :
          Returns([NoRet EXCEPT !.op = "GetTitle", !.s = s, !.str = t])

GetWidth(s) ==
    /\ Callable(s)
    /\ Returns([NoRet EXCEPT !.op = "GetWidth", !.s = s, !.n = window[s].m_width])

GetHeight(s) ==
    /\ Callable(s)
    /\ Returns([NoRet EXCEPT !.op = "GetHeight", !.s = s, !.n = window[s].m_height])

\* GetWindowHandle returns &m_window_handle; n is the handle it points at.
GetWindowHandle(s) ==
    /\ Callable(s)
    /\ Returns([NoRet EXCEPT !.op = "GetWindowHandle", !.s = s, !.n = window[s].handle])

\* ------------------------------------------------------------ Window::Draw

\* Draw writing the copy's result back into the pixel store (here: clearing it).
DrawMembers_Clears(win) ==
    [win EXCEPT !.m_framebuffer = [i \in DOMAIN @ |-> ZeroColor]]

\* The members after Draw: m_framebuffer.data() and &m_bmi are only read.
DrawMembers(win) == win

\* What GetDC(handle) designates: the whole screen for a null handle, the
\* window's client area for a live window, nothing (NULL hdc) otherwise.
GetDCTarget(E, hwnd, dcOk) ==
    IF ~dcOk THEN "none"
    ELSE IF hwnd = NULL THEN "screen"
    ELSE IF E.nativeWin[hwnd].exists THEN "window"
    ELSE "none"

\* Draw leaving early, without ReleaseDC, when the copy fails.
DrawReleases_NotOnFailure(target, copyOk) ==
    IF target = "none" \/ ~copyOk THEN 0 ELSE 1

\* The contexts ReleaseDC(handle, hdc) gives back: the one GetDC handed out,
\* whether StretchDIBits copied or not (nothing for a NULL hdc).
DrawReleases(target, copyOk) == IF target = "none" THEN 0 ELSE 1

\* Draw stretching the framebuffer over the window's present client area.
DrawDst_ClientRect(E, win) ==
    IF win.handle # NULL /\ E.nativeWin[win.handle].exists
    THEN <<0, 0, E.nativeWin[win.handle].size[1], E.nativeWin[win.handle].size[2]>>
    ELSE <<0, 0, win.m_width, win.m_height>>

\* The destination rectangle given to StretchDIBits: xDest, yDest, DestWidth,
\* DestHeight.
DrawDst(E, win) == <<0, 0, win.m_width, win.m_height>>

\* The source rectangle given to StretchDIBits: xSrc, ySrc, SrcWidth, SrcHeight.
DrawSrc(win) == <<0, 0, win.m_width, win.m_height>>

\* Draw(): GetDC, StretchDIBits, ReleaseDC.  dcOk: GetDC finds a context;
\* copyOk: StretchDIBits copies.
Draw(s, dcOk, copyOk) ==
    /\ Callable(s)
    /\ LET win    == window[s]
           target == GetDCTarget(Env, win.handle, dcOk)
           held   == IF target = "none" THEN 0 ELSE 1
       IN  /\ ret' = [NoRet EXCEPT
                        !.op = "Draw", !.s = s,
                        !.blit = [target   |-> target,
                                  dst      |-> DrawDst(Env, win),
                                  src      |-> DrawSrc(win),
                                  pixels   |-> win.m_framebuffer,
                                  biHeight |-> win.m_bmi.biHeight,
                                  copied   |-> (target # "none" /\ copyOk)]]
           /\ dcOut' = (dcOut + held) - DrawReleases(target, copyOk)
           /\ window' = [window EXCEPT ![s] = DrawMembers(win)]
    /\ Sched("Draw", FALSE)
    /\ UNCHANGED <<arg, ptr, nativeWin, classRegistered, queue, quitPosted,
                   pc, cur, closeAtEntry, registerLog, budget, legacy, calc>>

\* ------------------------------------------------------------ environment

\* The user or the system posts a message to native window h; a WM_SIZE
\* reports the client size the window was just resized to.
EnvPost(h, kind, size) ==
    /\ nativeWin[h].exists
    /\ Len(queue) < MaxQueue
    /\ queue' = Append(queue, Msg(h, kind, IF kind = "WM_SIZE" THEN size ELSE <<0, 0>>))
    /\ nativeWin' = IF kind = "WM_SIZE"
                    THEN [nativeWin EXCEPT ![h].size = size]
                    ELSE nativeWin
    /\ Spend
    /\ UNCHANGED <<window, arg, ptr, classRegistered, quitPosted, pc, cur,
                   closeAtEntry, ret, dcOut, registerLog, main,
                   legacy, calc>>

\* ------------------------------------- main.cpp, the message-loop program

\* Everything but the state of the message-loop program.
surfaceVars == <<window, arg, ptr, nativeWin, classRegistered, queue, quitPosted,
                 pc, cur, closeAtEntry, ret, dcOut, registerLog, main, budget,
                 calc>>

\* #define WIDTH 800, #define HEIGHT 600, scaled down.
WIDTH == MaxDim + 1
HEIGHT == MaxDim

\* What the uninitialised new uint32_t[WIDTH * HEIGHT] may hold.
Garbage == {0, 305419896}

\* The values of uint8_t color followed: static_cast<uint8_t>(s * 255) for
\* s = sin(time) * .5f + .5f, which lies in 0 .. 1.
Channel == {0, 1, 128, 255}

\* The messages GetMessage hands to the loop.
LegacyKinds == {"WM_PAINT", "WM_KEYDOWN", "WM_CLOSE"}

\* x << n on an int that does not overflow.
Shl(x, n) == x * 2^n

\* x | y on non-negative ints.
RECURSIVE BitOr(_, _)
BitOr(x, y) ==
    IF x = 0 THEN y
    ELSE IF y = 0 THEN x
    ELSE (IF x % 2 = 1 \/ y % 2 = 1 THEN 1 ELSE 0) + 2 * BitOr(x \div 2, y \div 2)

\* (a << 24) | (r << 16) | (g << 8) | b, stored to a uint32_t.
Pack(a, r, g, b) == BitOr(BitOr(BitOr(Shl(a, 24), Shl(r, 16)), Shl(g, 8)), b)

\* The inner index with the row stride taken from the other dimension.
FillIndex_Stride(x, y) == y * HEIGHT + x

\* framebuffer[y * WIDTH + x]
FillIndex(x, y) == y * WIDTH + x

\* The two for loops: the entries written hold value, the others stay.
\* (framebuffer[i] of the program is fb[i + 1].)
Fill(fb, value) ==
    LET written == {FillIndex(x, y) : x \in 0 .. WIDTH - 1, y \in 0 .. HEIGHT - 1}
    IN  [i \in DOMAIN fb |-> IF (i - 1) \in written THEN value ELSE fb[i]]

\* The frame-timing code with the sampling window never restarted.
LegacyTiming_NoRestart(L) ==
    LET elapsedTime == L.now - L.fpsStartTime
    IN  [L EXCEPT !.frameTime = L.now - L.lastFrameTime,
                  !.lastFrameTime = L.now,
                  !.frameCount = IF elapsedTime >= TicksPerSecond THEN 0 ELSE @ + 1,
                  !.fps = IF elapsedTime >= TicksPerSecond
                          THEN [frames |-> L.frameCount + 1, ticks |-> elapsedTime]
                          ELSE @]

\* The frame-timing code of one iteration, currentFrameTime being L.now.  fps
\* is kept as the quotient it is computed from: frames per ticks.
LegacyTiming(L) ==
    LET elapsedTime == L.now - L.fpsStartTime
    IN  [L EXCEPT !.frameTime = L.now - L.lastFrameTime,
                  !.lastFrameTime = L.now,
                  !.frameCount = IF elapsedTime >= TicksPerSecond THEN 0 ELSE @ + 1,
                  !.fps = IF elapsedTime >= TicksPerSecond
                          THEN [frames |-> L.frameCount + 1, ticks |-> elapsedTime]
                          ELSE @,
                  !.fpsStartTime = IF elapsedTime >= TicksPerSecond THEN L.now ELSE @]

\* The program is not this one.
NoLegacy == [pc |-> "off", quit |-> FALSE, framebuffer |-> <<>>, time |-> 0,
             now |-> 0, lastFrameTime |-> 0, fpsStartTime |-> 0, frameCount |-> 0,
             frameTime |-> 0, fps |-> [frames |-> 0, ticks |-> 1]]

\* The program at the start of main: the globals are initialised, the
\* framebuffer is allocated and holds anything.
LegacyStart ==
    {[NoLegacy EXCEPT !.pc = "setup",
                      !.framebuffer = [i \in 1 .. WIDTH * HEIGHT |-> g]] : g \in Garbage}

\* main up to the loop: without a window it returns, else it takes the time.
LegacySetup(nativeOk) ==
    /\ legacy.pc = "setup"
    /\ legacy' = [legacy EXCEPT !.pc = IF nativeOk THEN "loop" ELSE "done",
                                !.lastFrameTime = legacy.now,
                                !.fpsStartTime = legacy.now]
    /\ UNCHANGED surfaceVars

\* Time passes.
LegacyTick ==
    /\ legacy.pc \in {"setup", "loop"}
    /\ legacy.now < MaxClock
    /\ legacy' = [legacy EXCEPT !.now = @ + 1]
    /\ UNCHANGED surfaceVars

\* One iteration of the while loop: GetMessage handed out a message of the
\* given kind; it is dispatched (the default handling of WM_CLOSE destroys the
\* window and WM_DESTROY posts the quit message; WM_PAINT only reads the
\* globals), then the timing code and the placeholder renderer run.
LegacyIteration(kind, color) ==
    /\ legacy.pc = "loop"
    /\ ~legacy.quit
    /\ legacy.time < MaxFrames
    /\ LET a == 0
           r == color
           g == 255
           b == 0
           L == LegacyTiming(legacy)
       IN  legacy' = [L EXCEPT !.quit = (kind = "WM_CLOSE"),
                               !.time = @ + 1,
                               !.framebuffer = Fill(@, Pack(a, r, g, b))]
    /\ UNCHANGED surfaceVars

\* GetMessage retrieves WM_QUIT and returns 0: the loop ends, main returns.
LegacyExit ==
    /\ legacy.pc = "loop"
    /\ legacy.quit
    /\ legacy' = [legacy EXCEPT !.pc = "done"]
    /\ UNCHANGED surfaceVars

\* ------------------------------------- m_width * m_height, in 32-bit int

\* Operands followed for the product: small ones, main's 800 and 600, and
\* values around the square root of 2^31 and up to INT_MAX.
IntOperands == {1, 2, 600, 800, 32768, 46340, 46341, 65535, 65536, 1000000, 2147483647}

\* The four bytes of a non-negative int, lowest first, as a function on 0 .. 3.
Digits(n) == [i \in 0 .. 3 |-> (n \div 256^i) % 256]

\* The sum of the byte products that fall on byte k of a product.
Column(a, b, k) ==
    LET Term(i) == IF (k - i) \in 0 .. 3 THEN a[i] * b[k - i] ELSE 0
    IN  Term(0) + Term(1) + Term(2) + Term(3)

\* Bytes k .. 7 of the product of a and b, lowest first, given the carry.
RECURSIVE MulDigits(_, _, _, _)
MulDigits(a, b, k, carry) ==
    IF k = 8 THEN <<>>
    ELSE LET t == Column(a, b, k) + carry
         IN  <<t % 256>> \o MulDigits(a, b, k + 1, t \div 256)

\* The mathematical product width * height of two non-negative ints, as the
\* eight bytes of a 64-bit number, lowest first.
Product(width, height) == MulDigits(Digits(width), Digits(height), 0, 0)

\* A non-negative product is representable in int: below 2^31.
IntFits(p) == p[4] < 128 /\ \A i \in 5 .. 8 : p[i] = 0

\* The int a wrapping 32-bit multiplication leaves, converted to the size_t
\* parameter of resize: the low four bytes, sign-extended.
WrapToSizeT(p) ==
    SubSeq(p, 1, 4) \o (IF p[4] >= 128 THEN <<255, 255, 255, 255>> ELSE <<0, 0, 0, 0>>)

\* The element counts m_framebuffer.resize(m_width * m_height, ...) may be
\* called with.  The product is an int multiplication; when it overflows the
\* behaviour is undefined: the build either multiplies in 32 bits (the
\* wrapped value) or in a wider register (the exact value).
ResizeCounts(width, height) ==
    LET p == Product(width, height)
    IN  IF IntFits(p) THEN {p} ELSE {WrapToSizeT(p), p}

\* Nothing computed yet.
NoCalc == [width |-> 0, height |-> 0, count |-> <<0, 0, 0, 0, 0, 0, 0, 0>>]

\* The constructor evaluates the resize argument for a width and a height.
ComputeSize(width, height) ==
    /\ calc' \in {[width |-> width, height |-> height, count |-> c] :
                    c \in ResizeCounts(width, height)}
    /\ UNCHANGED <<window, arg, ptr, nativeWin, classRegistered, queue, quitPosted,
                   pc, cur, closeAtEntry, ret, dcOut, registerLog, main, budget,
                   legacy>>

\* ---------------------------------------------------------- specification

InitAll(m, b, L) ==
    /\ legacy \in L
    /\ calc = NoCalc
    /\ main = m
    /\ budget = b
    /\ registerLog = <<>>
    /\ window = [s \in Surface |-> NoWindow]
    /\ arg = [s \in Surface |-> NoArg]
    /\ ptr = [s \in Surface |-> "unset"]
    /\ nativeWin = [h \in Surface |-> NoNative]
    /\ classRegistered = FALSE
    /\ queue = <<>>
    /\ quitPosted = FALSE
    /\ pc = "idle"
    /\ cur = 0
    /\ closeAtEntry = FALSE
    /\ ret = NoRet
    /\ dcOut = 0

InitWith(m, b) == InitAll(m, b, {NoLegacy})

Init == InitWith(ClientMain, NoBudget)

\* One surface, driven by any client: every call in any order.
Next ==
    \/ \E s \in MainSurfaces, title \in Titles, width \in Dim, height \in Dim,
          nativeOk \in BOOLEAN, temporary \in BOOLEAN :
          Create(s, title, width, height, nativeOk, temporary)
    \/ \E s \in MainSurfaces : PollBegin(s)
    \/ PollMessage
    \/ PollReturn
    \/ \E s \in MainSurfaces : IsOpen(s)
    \/ \E s \in MainSurfaces : GetTitle(s)
    \/ \E s \in MainSurfaces : GetWidth(s)
    \/ \E s \in MainSurfaces : GetHeight(s)
    \/ \E s \in MainSurfaces : GetWindowHandle(s)
    \/ \E s \in MainSurfaces, dcOk \in BOOLEAN, copyOk \in BOOLEAN : Draw(s, dcOk, copyOk)
    \/ \E s \in MainSurfaces : Destructor(s)
    \/ \E h \in MainSurfaces, kind \in PostedKinds, size \in NativeSizes :
          EnvPost(h, kind, size)

Spec == Init /\ [][Next]_vars


\* Sizes and title of the two-surface scenario.
TwoDim == {1, MaxDim}

\* Two surfaces created on the same thread, driven by any client.
NextTwo ==
    \/ \E s \in Surface, width \in TwoDim, nativeOk \in BOOLEAN :
          Create(s, "Test", width, 1, nativeOk, FALSE)
    \/ \E s \in Surface : PollBegin(s)
    \/ PollMessage
    \/ PollReturn
    \/ \E s \in Surface : IsOpen(s)
    \/ \E s \in Surface : GetWidth(s)
    \/ \E s \in Surface, copyOk \in BOOLEAN : Draw(s, TRUE, copyOk)
    \/ \E s \in Surface : Destructor(s)
    \/ \E h \in Surface, kind \in PostedKinds, size \in NativeSizes :
          EnvPost(h, kind, size)

SpecTwo == Init /\ [][NextTwo]_vars


\* PollEvents on a thread with two windows, the environment posting a finite
\* number of messages, before and during the call.
InitPoll == InitWith(ClientMain, Budget(MaxPosts))

\* A step of a running PollEvents call.
PollStep == PollMessage \/ PollReturn

NextPoll ==
    \/ \E s \in Surface, nativeOk \in BOOLEAN : Create(s, "Test", 1, 1, nativeOk, FALSE)
    \/ \E s \in Surface : PollBegin(s)
    \/ PollStep
    \/ \E h \in Surface, kind \in PostedKinds, size \in NativeSizes :
          EnvPost(h, kind, size)

\* The thread inside PollEvents keeps running: a call in progress takes its
\* next step.
SpecPoll == InitPoll /\ [][NextPoll]_vars /\ WF_vars(PollStep)


\* main(): the size it creates its window with (800 x 600), scaled down.
MainSize == <<MaxDim, 1>>

InitMain == InitWith(ProgramMain, NoBudget)

\* A step of main(): each call it makes, where its code makes it.
MainStep ==
    \/ \E nativeOk \in BOOLEAN :
          Create(1, "Rasterizer", MainSize[1], MainSize[2], nativeOk, TRUE)
    \/ CreateElse(1, "Rasterizer", MainSize[1], MainSize[2], TRUE)
    \/ NullCall
    \/ IsOpen(1)
    \/ PollBegin(1)
    \/ PollMessage
    \/ PollReturn
    \/ \E dcOk \in BOOLEAN, copyOk \in BOOLEAN : Draw(1, dcOk, copyOk)
    \/ Destructor(1)

\* main() running, the user acting on its window.
NextMain ==
    \/ MainStep
    \/ \E kind \in PostedKinds, size \in NativeSizes : EnvPost(1, kind, size)

\* The process keeps running: main() takes its next step.
SpecMain == InitMain /\ [][NextMain]_vars /\ WF_vars(MainStep)


\* The message-loop program of main.cpp, lines 1-139.
InitLegacy == InitAll(ClientMain, NoBudget, LegacyStart)

NextLegacy ==
    \/ \E nativeOk \in BOOLEAN : LegacySetup(nativeOk)
    \/ LegacyTick
    \/ \E kind \in LegacyKinds, color \in Channel : LegacyIteration(kind, color)
    \/ LegacyExit

SpecLegacy == InitLegacy /\ [][NextLegacy]_vars


\* The resize argument of the constructor, for any positive operands.
NextSize == \E width \in IntOperands, height \in IntOperands : ComputeSize(width, height)

SpecSize == Init /\ [][NextSize]_vars


\* ------------------------------------------------------------------ claims

Live(s) == window[s].life = "alive"

\* The constructor of surface s ran and CreateWindowEx failed in it.
CreationFailed(s) == window[s].life # "none" /\ ~arg[s].created

\* Every pixel of framebuffer fb is the colour c.
AllPixels(fb, c) == \A i \in DOMAIN fb : fb[i] = c

\* C1: IsOpen() is monotonic.  Once m_is_open of a surface is false, no step
\* (a PollEvents turn on whatever message, Draw, an accessor, a posted message,
\* also a message of another window of the thread) makes it true again, and an
\* IsOpen() call made then returns false.
C1_IsOpenMonotonic ==
    [][\A s \in Surface :
          (Live(s) /\ ~window[s].m_is_open)
             => /\ ~window'[s].m_is_open
                /\ IsOpen(s) => ~ret'.b]_vars

\* C1 witness: a closed surface whose native window had been created is inside
\* PollEvents with a message of the other window about to be processed.
C1_Witness ==
    /\ pc = "poll"
    /\ cur = 1
    /\ Live(1)
    /\ arg[1].created
    /\ ~window[1].m_is_open
    /\ queue # <<>>
    /\ Head(queue).hwnd = 2

\* C2: for an open surface with a close message waiting for its native window
\* when PollEvents is called, m_is_open is false when that call returns.
C2_OnePollCloses ==
    [][(pc = "poll" /\ pc' = "idle" /\ closeAtEntry) => ~window'[cur].m_is_open]_vars

\* C2 witness: the PollEvents that was entered with the surface open and a close
\* pending has drained the queue, is about to return, and the surface is closed.
C2_Witness ==
    /\ pc = "poll"
    /\ closeAtEntry
    /\ ~PeekHasMessage
    /\ ~window[cur].m_is_open
    /\ ~nativeWin[window[cur].handle].exists

\* C3: Create with width > 0, height > 0 and a successful CreateWindowEx gives a
\* surface whose GetWidth() / GetHeight() return the arguments and which is
\* open when Create returns.
C3_CreateGivesSizeAndOpen ==
    [][\A s \in Surface :
          (/\ window'[s].life = "alive"
           /\ arg'[s].created
           /\ arg'[s].width > 0
           /\ arg'[s].height > 0)
             => /\ window'[s].m_width = arg'[s].width
                /\ window'[s].m_height = arg'[s].height
                /\ window[s].life = "none" => window'[s].m_is_open
                /\ GetWidth(s) => ret'.n = arg'[s].width
                /\ GetHeight(s) => ret'.n = arg'[s].height]_vars

\* C3 witness: a surface created 1 x MaxDim is open and GetHeight() returned MaxDim.
C3_Witness ==
    /\ Live(1)
    /\ arg[1].created
    /\ arg[1].width = 1
    /\ arg[1].height = MaxDim
    /\ window[1].m_is_open
    /\ ret.op = "GetHeight"
    /\ ret.n = MaxDim

\* The arguments of Create for surface s are the valid ones of the data model.
ValidArgs(s) == arg[s].width > 0 /\ arg[s].height > 0

\* C4: GetTitle() returns a string equal to the title passed to Create, at every
\* point after Create returned (stated for a created, valid surface).
C4_TitleIsCreateTitle ==
    (ret.op = "GetTitle" /\ ValidArgs(ret.s) /\ arg[ret.s].created)
        => (ret.str = arg[ret.s].title)

C6_FramebufferLength ==
    \A s \in Surface :
        Live(s) => Len(window[s].m_framebuffer) = window[s].m_width * window[s].m_height

\* C6 witness: the native window was resized away from the creation size, its
\* WM_SIZE has been processed, and the framebuffer still has its creation length.
C6_Witness ==
    /\ Live(1)
    /\ pc = "idle"
    /\ queue = <<>>
    /\ nativeWin[1].exists
    /\ nativeWin[1].size # <<window[1].m_width, window[1].m_height>>
    /\ Len(window[1].m_framebuffer) = MaxDim
    /\ window[1].m_width * window[1].m_height = MaxDim

\* C7: Draw() does not write the pixel store: across every Draw step, whether
\* GetDC or the copy failed or not, m_framebuffer is unchanged entry for entry.
C7_DrawKeepsFramebuffer ==
    [][(\E s \in Surface, dcOk \in BOOLEAN, copyOk \in BOOLEAN : Draw(s, dcOk, copyOk))
          => \A s \in Surface : window'[s].m_framebuffer = window[s].m_framebuffer]_vars

\* C7 witness: a Draw whose copy did not happen has returned and the framebuffer
\* holds the pixels the call was given.
C7_Witness ==
    /\ ret.op = "Draw"
    /\ ~ret.blit.copied
    /\ Len(ret.blit.pixels) = MaxDim * MaxDim
    /\ window[ret.s].m_framebuffer = ret.blit.pixels

\* C8: in every state of a constructed surface m_bmi.bmiHeader.biHeight is
\* -GetHeight(), and no step after construction changes the descriptor.
C8_DescriptorHeightNegated ==
    [][\A s \in Surface :
          /\ window'[s].life = "alive"
                => window'[s].m_bmi.biHeight = -window'[s].m_height
          /\ window[s].life = "alive"
                => window'[s].m_bmi = window[s].m_bmi]_vars

\* C8 witness: a surface of height MaxDim, after its native window was resized
\* and a Draw ran, has descriptor height -MaxDim.
C8_Witness ==
    /\ Live(1)
    /\ window[1].m_height = MaxDim
    /\ window[1].m_bmi.biHeight = -MaxDim
    /\ nativeWin[1].size = <<MaxDim + 1, MaxDim + 1>>
    /\ ret.op = "Draw"
    /\ ret.blit.biHeight = -MaxDim

C10_SilentCreationFailure ==
    \A s \in Surface :
        CreationFailed(s)
           => /\ window[s].handle = NULL
              /\ ~window[s].m_is_open
              /\ (ret.op = "IsOpen" /\ ret.s = s) => ~ret.b
              /\ ptr[s] # "null"
              /\ ~CtorThrows(arg[s].width, arg[s].height)
                    => ptr[s] \in {"object", "released"}

\* C10 witness: after a failed creation IsOpen() returned false on the object
\* Create handed back.
C10_Witness ==
    /\ CreationFailed(1)
    /\ ptr[1] = "object"
    /\ window[1].handle = NULL
    /\ ret.op = "IsOpen"
    /\ ~ret.b

\* C11: PollEvents never blocks and always terminates.  A call in progress
\* returns (given the finite supply of messages); when PeekMessage has nothing
\* to hand out, the next step of the call is its return, with no wait for a
\* message; and at its return the queue is empty and no quit notification is
\* left, so what was queued behind a quit notification was drained as well.
C11_PollTerminates ==
    /\ (pc = "poll") ~> (pc = "idle")
    /\ [][(pc = "poll" /\ ~PeekHasMessage /\ budget' = budget) => pc' = "idle"]_vars
    /\ [][(pc = "poll" /\ pc' = "idle") => (queue' = <<>> /\ ~quitPosted')]_vars

\* A PollEvents call of surface 1 returned after it drained a close of its own
\* window, the quit notification, and messages posted to the other window.
C11_Witness ==
    /\ pc = "idle"
    /\ budget.left = 0
    /\ queue = <<>>
    /\ ~quitPosted
    /\ Live(1) /\ arg[1].created /\ ~window[1].m_is_open
    /\ nativeWin[2].exists

\* C12: processing a close message in PollEvents does not destroy the native
\* window; the native window of a surface goes only with the surface object.
\* So as long as the surface object lives, the native window that was created
\* for it exists.
C12_NativeWindowOutlivesClose ==
    \A s \in Surface :
        (Live(s) /\ ValidArgs(s) /\ arg[s].created)
           => nativeWin[window[s].handle].exists

\* C13: the drawing context acquired inside Draw is released before Draw
\* returns, on every path.  Between two calls (every state: a Draw call is one
\* step) no context is acquired and not released, also when GetDC or
\* StretchDIBits failed.
C13_DrawReleasesContext == dcOut = 0

\* Draw got a context for the window and the copy failed.
C13_Witness ==
    /\ ret.op = "Draw"
    /\ ret.blit.target = "window"
    /\ ~ret.blit.copied
    /\ dcOut = 0

\* C18: GetWidth() and GetHeight() are fixed for the surface's lifetime.  As
\* long as the surface lives its m_width and m_height are the values given to
\* Create, and what GetWidth() / GetHeight() returned is that value, whatever
\* PollEvents and Draw calls were made and whatever size the native window was
\* given meanwhile.
C18_SizeFixed ==
    \A s \in Surface :
        /\ Live(s) => /\ window[s].m_width = arg[s].width
                      /\ window[s].m_height = arg[s].height
        /\ (ret.op = "GetWidth" /\ ret.s = s) => ret.n = arg[s].width
        /\ (ret.op = "GetHeight" /\ ret.s = s) => ret.n = arg[s].height

\* GetWidth() was called on a surface whose native window was resized to
\* another size, the resize message having been processed by PollEvents.
C18_Witness ==
    /\ ret.op = "GetWidth" /\ ret.s = 1
    /\ Live(1) /\ ValidArgs(1)
    /\ nativeWin[1].exists
    /\ nativeWin[1].size # <<arg[1].width, arg[1].height>>
    /\ nativeWin[1].size \in NativeSizes
    /\ pc = "idle" /\ queue = <<>>
    /\ ret.n = arg[1].width

\* C19: every surface that exists has width > 0 and height > 0.
C19_PositiveSize ==
    \A s \in Surface :
        Live(s) => (window[s].m_width > 0 /\ window[s].m_height > 0)

\* C14: in every iteration of main's loop PollEvents is called exactly once
\* and Draw exactly once, PollEvents first.  Draw is called only after the one
\* PollEvents call of the iteration has returned; an iteration that is over
\* made one call of each; and no iteration makes a second call of either.
C14_OncePerIteration ==
    /\ [](main.draws <= main.polls /\ main.polls <= 1)
    /\ [][main.draws' = main.draws + 1
            => (main.polls = 1 /\ main.draws = 0 /\ pc = "idle")]_vars
    /\ [][(main.pc = "draw" /\ main.pc' # "draw")
            => (main.polls' = 1 /\ main.draws' = 1)]_vars
    /\ [][(main.pc' = "test" /\ main.pc \notin {"test", "create"})
            => (main.polls' = 1 /\ main.draws' = 1)]_vars

\* main is back at the while test after a whole iteration, the window open.
C14_Witness ==
    /\ main.pc = "test"
    /\ main.polls = 1 /\ main.draws = 1
    /\ window[1].m_is_open
    /\ ret.op = "Draw"

\* C15: when a close is delivered to the native window of main's surface while
\* the loop runs, a quit notification is posted and main returns eventually,
\* as long as main keeps taking steps.
C15_CloseEndsMain ==
    /\ ClosePending(1) ~> quitPosted
    /\ ClosePending(1) ~> (main.pc = "done")

\* main returned after its window had been created and then closed.
C15_Witness ==
    /\ main.pc = "done"
    /\ arg[1].created
    /\ ~nativeWin[1].exists
    /\ window[1].life = "destroyed"

\* C16: main's loop never calls Draw on a surface whose m_is_open is false.
C16_NoDrawWhenClosed ==
    [][main.draws' = main.draws + 1 => window[1].m_is_open]_vars

\* The accessors named by C17.
PureAccessors == {"GetTitle", "GetWidth", "GetHeight", "GetWindowHandle"}

\* C17: GetTitle, GetWidth, GetHeight and GetWindowHandle are pure reads.  A
\* call of one of them changes no field of the surface and nothing of the
\* message queue or the native windows, and in every state each of them has
\* one value to return (so two calls in a row return the same).
C17_AccessorsPure ==
    /\ [][(ret' # ret /\ ret'.op \in PureAccessors)
            => UNCHANGED <<window, nativeWin, queue, quitPosted, dcOut>>]_vars
    /\ [](\A s \in Surface :
             (Live(s) /\ ValidArgs(s)) => Cardinality(TitleRead(s)) = 1)

\* C20: the window class is registered once per process and a duplicate
\* registration is not an error.  Of all RegisterClass calls made exactly one
\* succeeded, and a surface constructed while the class is registered already
\* gets its native window and is open (when CreateWindowEx itself succeeds).
C20_DuplicateRegistration ==
    /\ [](registerLog # <<>>
            => Cardinality({i \in DOMAIN registerLog : registerLog[i] # 0}) = 1)
    /\ [][\A s \in Surface :
             (/\ window[s].life = "none"
              /\ window'[s].life = "alive"
              /\ classRegistered
              /\ arg'[s].created)
                => /\ nativeWin'[s].exists
                   /\ window'[s].handle = s
                   /\ window'[s].m_is_open]_vars

\* Two surfaces were constructed, the second with the class registered by the
\* first, and both are open.
C20_Witness ==
    /\ registerLog = <<1, 0>>
    /\ \A s \in Surface :
          Live(s) /\ window[s].m_is_open /\ nativeWin[s].exists

\* C21: the presentation descriptor of a surface holds, from construction on
\* and in every state: biSize = sizeof(BITMAPINFOHEADER), biWidth = the width
\* given to Create, biPlanes = 1, biBitCount = 32, biCompression = BI_RGB.
C21_DescriptorFields ==
    \A s \in Surface :
        Live(s) => /\ window[s].m_bmi.biSize = SizeofBitmapInfoHeader
                   /\ window[s].m_bmi.biWidth = arg[s].width
                   /\ window[s].m_bmi.biPlanes = 1
                   /\ window[s].m_bmi.biBitCount = 32
                   /\ window[s].m_bmi.biCompression = BI_RGB

\* A surface of the largest width that was presented and then closed.
C21_Witness ==
    /\ Live(1) /\ arg[1].created
    /\ arg[1].width = MaxDim /\ arg[1].height = 1
    /\ ret.op = "Draw"
    /\ ~window[1].m_is_open
    /\ window[1].m_bmi.biWidth = MaxDim

\* C22: every Draw call requests one copy of the whole framebuffer, source
\* and destination rectangle both at (0,0) and both of the surface's width and
\* height (no scaling), whatever size the native window has by then.
C22_DrawWholeUnscaled ==
    (ret.op = "Draw")
       => /\ ret.blit.dst = <<0, 0, arg[ret.s].width, arg[ret.s].height>>
          /\ ret.blit.src = ret.blit.dst
          /\ ret.blit.pixels = window[ret.s].m_framebuffer
          /\ Len(ret.blit.pixels) = arg[ret.s].width * arg[ret.s].height

\* Draw copied to a window that had been resized to another size.
C22_Witness ==
    /\ ret.op = "Draw" /\ ret.s = 1
    /\ ret.blit.target = "window" /\ ret.blit.copied
    /\ ValidArgs(1)
    /\ nativeWin[1].size \in NativeSizes
    /\ nativeWin[1].size # <<arg[1].width, arg[1].height>>
    /\ pc = "idle" /\ queue = <<>>

\* C23: a surface stays open until a quit notification is observed.  The
\* m_is_open of a surface goes from true to false only in a step of its own
\* PollEvents call that retrieved WM_QUIT; Draw, the accessors, other surfaces'
\* calls and PollEvents turns on any other message leave it true.
C23_OpenUntilQuit ==
    [][\A s \in Surface :
          (Live(s) /\ window[s].m_is_open /\ ~window'[s].m_is_open)
             => (pc = "poll" /\ cur = s /\ PeekMsg.message = "WM_QUIT")]_vars

\* Inside PollEvents of a surface the close message of its window has been
\* processed (window destroyed, quit posted) and the surface is still open:
\* the quit notification has not been retrieved yet.
C23_Witness ==
    /\ pc = "poll" /\ cur = 1
    /\ Live(1) /\ arg[1].created
    /\ ~nativeWin[1].exists
    /\ quitPosted
    /\ window[1].m_is_open

\* C24: the destructor calls DestroyWindow if and only if the stored handle
\* is non-null, and after the destructor the surface's native window does not
\* exist.
C24_DestructorReleases ==
    [][\A s \in Surface :
          (window[s].life = "alive" /\ window'[s].life = "destroyed")
             => /\ ret'.op = "~Window" /\ ret'.s = s
                /\ ret'.b <=> (window[s].handle # NULL)
                /\ ~nativeWin'[s].exists]_vars

\* The destructor of an open surface ran and destroyed its window.
C24_Witness ==
    /\ window[1].life = "destroyed"
    /\ window[1].m_is_open
    /\ arg[1].created
    /\ ret.op = "~Window" /\ ret.b
    /\ ~nativeWin[1].exists

\* The messages that reach the window procedure.
ProcMessages == {"WM_CREATE", "WM_CLOSE", "WM_SIZE", "WM_KEYDOWN", "WM_CHAR", "WM_DESTROY"}

\* C25: the window procedure turns every WM_DESTROY into one quit
\* notification and does nothing else for it (no default handling); every
\* other message gets exactly the default handling.  So a quit notification
\* appears only in a step that destroyed a window, and every step that
\* destroyed a window leaves the quit notification posted.
C25_WindowProcEscalates ==
    /\ [](\A h \in Surface :
             nativeWin[h].exists
                => /\ WindowProc(Env, h, "WM_DESTROY") = [Env EXCEPT !.quitPosted = TRUE]
                   /\ \A m \in ProcMessages \ {"WM_DESTROY"} :
                         WindowProc(Env, h, m) = DefWindowProc(Env, h, m))
    /\ [][(~quitPosted /\ quitPosted')
            => \E h \in Surface : nativeWin[h].exists /\ ~nativeWin'[h].exists]_vars
    /\ [][(\E h \in Surface : nativeWin[h].exists /\ ~nativeWin'[h].exists)
            => quitPosted']_vars

\* The destructor of a surface destroyed its window: the quit notification is
\* posted outside of any PollEvents call.
C25_Witness ==
    /\ quitPosted
    /\ pc = "idle"
    /\ window[1].life = "destroyed"
    /\ ret.op = "~Window" /\ ret.b

\* C28: whenever no PollEvents call is executing, an open surface's native
\* window still exists: the window's destruction by the default handling of a
\* close message and the flip of m_is_open happen in the same PollEvents call.
C28_OpenImpliesWindow ==
    \A s \in Surface :
        (pc = "idle" /\ Live(s) /\ window[s].m_is_open)
           => nativeWin[window[s].handle].exists

\* C29: the native window of a surface is destroyed at most once: when the
\* destructor calls DestroyWindow, the window of the stored handle exists.
C29_DestroyedOnce ==
    [][\A s \in Surface :
          (window[s].life = "alive" /\ window'[s].life = "destroyed" /\ ret'.b)
             => nativeWin[window[s].handle].exists]_vars

\* C30: with two surfaces on one thread a surface's open flag reacts to the
\* close of its own window only.  The m_is_open of a surface turns false only
\* when its own native window is gone, and a surface whose native window was
\* closed is not open after a PollEvents call of its own.
C30_OwnCloseOnly ==
    /\ [][\A s \in Surface :
             (Live(s) /\ window[s].m_is_open /\ ~window'[s].m_is_open)
                => ~nativeWin'[s].exists]_vars
    /\ [][\A s \in Surface :
             (pc = "poll" /\ pc' = "idle" /\ cur = s /\ arg[s].created
                /\ ~nativeWin'[s].exists)
                => ~window'[s].m_is_open]_vars

C27_FpsWindow ==
    [][(legacy'.time = legacy.time + 1)
         => LET elapsed == legacy.now - legacy.fpsStartTime
            IN  /\ legacy'.fps # legacy.fps => elapsed >= TicksPerSecond
                /\ elapsed >= TicksPerSecond
                      => /\ legacy'.fps = [frames |-> legacy.frameCount + 1,
                                           ticks  |-> elapsed]
                         /\ legacy'.frameCount = 0
                         /\ legacy'.fpsStartTime = legacy.now
                /\ elapsed < TicksPerSecond
                      => /\ legacy'.fps = legacy.fps
                         /\ legacy'.fpsStartTime = legacy.fpsStartTime
                         /\ legacy'.frameCount = legacy.frameCount + 1]_vars

\* A sampling window of two frames was closed, well after the start, and a
\* frame of the next window has been counted.
C27_Witness ==
    /\ legacy.fps.frames = 2
    /\ legacy.fpsStartTime > TicksPerSecond
    /\ legacy.frameCount = 1

\* C32: when CreateWindowEx fails inside Create, main's loop makes no
\* iteration (no PollEvents call, no Draw call) and main returns normally: it
\* goes from the while test to return 0 and reaches the end of the program.
C32_NoIterationAfterFailure ==
    /\ [](CreationFailed(1)
            => /\ main.polls = 0 /\ main.draws = 0
               /\ main.pc \in {"test", "exit", "done"}
               /\ pc = "idle"
               /\ ret.op # "Draw")
    /\ CreationFailed(1) ~> (main.pc = "done")

\* main returned after a failed creation; its destructor found a null handle.
C32_Witness ==
    /\ CreationFailed(1)
    /\ main.pc = "done"
    /\ window[1].life = "destroyed"
    /\ ret.op = "~Window" /\ ~ret.b

\* C33: Draw draws to the surface's own native window or nowhere: whenever a
\* Draw call copied pixels, its drawing context was the one of the window.
C33_DrawOnlyToOwnWindow ==
    (ret.op = "Draw" /\ ValidArgs(ret.s) /\ ret.blit.copied)
       => ret.blit.target = "window"

\* C35: PollEvents changes nothing of the surface except m_is_open.  Across
\* every step of a PollEvents call (its entry, every message, its return) the
\* framebuffer, width, height, title binding, stored handle and descriptor of
\* every surface are what they were, and so is the caller's title string.
C35_PollFrame ==
    [][(pc = "poll" \/ pc' = "poll")
         => /\ \A s \in Surface :
                  window'[s] = [window[s] EXCEPT !.m_is_open = window'[s].m_is_open]
            /\ arg' = arg]_vars

\* Inside PollEvents of a surface that was resized and has just been closed by
\* a quit notification, its own window still standing.
C35_Witness ==
    /\ pc = "poll" /\ cur = 1
    /\ Live(1)
    /\ ~window[1].m_is_open
    /\ nativeWin[1].exists
    /\ nativeWin[1].size \in NativeSizes
    /\ Len(window[1].m_framebuffer) = MaxDim

\* C31: main never calls IsOpen, PollEvents or Draw through a null WindowPtr:
\* when Create returned nullptr the program makes no call on it and does not
\* end abnormally.
C31_NoCallThroughNull ==
    (ptr[1] = "null")
       => /\ ret.op \notin {"IsOpen", "Draw"}
          /\ main.polls = 0
          /\ main.pc # "terminated"

\* C34: for every positive width and height the framebuffer size computed as
\* width * height in 32-bit signed arithmetic is the mathematical product, so
\* the length resize is asked for is never another number than width * height.
C34_ProductExact ==
    (calc.width > 0 /\ calc.height > 0)
       => calc.count = Product(calc.width, calc.height)

====
